---------------------------- MODULE Spec2Model ----------------------------
(***************************************************************************)
(* Model of pin-manager-bot/daily_programmer_helper.py: the                *)
(* DailyProgrammerHelper pipeline that turns chat messages into Markdown   *)
(* (format_messages), aggregates them (parse_channel_history,              *)
(* parse_message), writes them to ToBePublished/index.md                   *)
(* (write_history_to_file) and publishes the directory with git            *)
(* (publish_challenges).                                                   *)
(*                                                                         *)
(* Text is modelled character by character: a string is a sequence of      *)
(* one-character strings, and each regular expression of the class is an   *)
(* operator that computes what Python's re module computes for it          *)
(* (leftmost match, greedy and lazy quantifiers in backtracking order,     *)
(* non-overlapping substitution).                                          *)
(***************************************************************************)
EXTENDS Integers, Sequences, FiniteSets, TLC

(***************************************************************************)
(* Characters and elementary string operators                              *)
(***************************************************************************)

\* "\n" is the only line terminator '.' refuses; \s is space or newline here
\* (tabs and the other blanks of \s do not occur in the modelled alphabet).
NL == "\n"

SpaceChars == {" ", "\n"}

WordChars ==
    {"a", "b", "c", "d", "e", "f", "g", "h", "i", "j", "k", "l", "m", "n",
     "o", "p", "q", "r", "s", "t", "u", "v", "w", "x", "y", "z", "A", "B",
     "C", "D", "E", "F", "G", "H", "I", "J", "K", "L", "M", "N", "O", "P",
     "Q", "R", "S", "T", "U", "V", "W", "X", "Y", "Z", "0", "1", "2", "3",
     "4", "5", "6", "7", "8", "9", "_"}

WordOrSpace == WordChars \cup SpaceChars

\* The character at position i, or "" past either end of the string.
CharAt(s, i) == IF i \in 1..Len(s) THEN s[i] ELSE ""

\* The literal lit occurs in s at position i.
LitAt(s, i, lit) ==
    /\ i >= 1
    /\ i + Len(lit) - 1 <= Len(s)
    /\ \A k \in 1..Len(lit) : s[i + k - 1] = lit[k]

\* One past the longest run of characters of class C that starts at i.
RunEnd(s, i, C) ==
    IF i > Len(s) THEN i
    ELSE CHOOSE j \in i..(Len(s) + 1) :
            /\ \A k \in i..(j - 1) : s[k] \in C
            /\ (j = Len(s) + 1 \/ s[j] \notin C)

\* The first position >= i that holds character c, or Len(s)+1.
NextChar(s, i, c) ==
    IF i > Len(s) THEN i
    ELSE CHOOSE j \in i..(Len(s) + 1) :
            /\ \A k \in i..(j - 1) : s[k] # c
            /\ (j = Len(s) + 1 \/ s[j] = c)

\* One past the end of the line that position i is on: where '.*' must stop.
LineEnd(s, i) == NextChar(s, i, NL)

MaxOf(S) == CHOOSE x \in S : \A y \in S : y <= x

MinOf(S) == CHOOSE x \in S : \A y \in S : x <= y

RECURSIVE Concat(_)
\* The concatenation of a sequence of strings.
Concat(ss) == IF ss = <<>> THEN <<>> ELSE Head(ss) \o Concat(Tail(ss))

\* s occurs in t as a contiguous substring.
Contains(t, s) == \E i \in 1..(Len(t) + 1) : LitAt(t, i, s)

IsPrefix(p, t) == LitAt(t, 1, p)

(***************************************************************************)
(* Class constants                                                         *)
(***************************************************************************)

\* __challenges_separator = "\n\n\n---\n\n\n"
challenges_separator == <<"\n", "\n", "\n", "-", "-", "-", "\n", "\n", "\n">>

\* The backtick: SANY reads no backtick inside a string, so the character
\* is written "tick".
Tick == "tick"

Fence == <<Tick, Tick, Tick>>

HeadingPrefix == <<"#", "#", " ">>

TitleJoin == <<" ", "-", "-", " ">>

ImagePrefix ==
    <<"h", "t", "t", "p", "s", ":", "/", "/", "a", "s", "s", "e", "t", "s",
      ".", "l", "e", "e", "t", "c", "o", "d", "e", ".", "c", "o", "m", "/",
      "u", "p", "l", "o", "a", "d", "s", "/">>

IllustrationOpen ==
    <<"!", "[", "I", "l", "l", "u", "s", "t", "r", "a", "t", "i", "o", "n",
      "]", "(">>

\***************************************************************************
\* CHALLENGE_REGEX = ===?\s+([\w\s]+)\-?[\w\s]*\s+=?==
\***************************************************************************

\* The pattern matches starting at position a.  Each quantified position is
\* where one component of the pattern ends:
\*   "==" "="?  \s+ = s[b..c-1]  [\w\s]+ = s[c..d-1]  "-"?
\*   [\w\s]* = s[d+h..f-1]  \s+ = s[f..g-1]  "="? "=="
ChallengeMatchAt(s, a) ==
    /\ LitAt(s, a, <<"=", "=">>)
    /\ \E e \in {0, 1} :
         /\ (e = 1 => CharAt(s, a + 2) = "=")
         /\ \E c \in (a + 2 + e + 1)..RunEnd(s, a + 2 + e, SpaceChars) :
              \E d \in (c + 1)..RunEnd(s, c, WordOrSpace) :
                \E h \in {0, 1} :
                  /\ (h = 1 => CharAt(s, d) = "-")
                  /\ \E f \in (d + h)..RunEnd(s, d + h, WordOrSpace) :
                       \E g \in (f + 1)..RunEnd(s, f, SpaceChars) :
                         \E k \in {0, 1} :
                           /\ (k = 1 => CharAt(s, g) = "=")
                           /\ LitAt(s, g + k, <<"=", "=">>)

\* CHALLENGE_REGEX.search(text) is not None
ChallengeSearch(s) == \E a \in 1..Len(s) : ChallengeMatchAt(s, a)

\***************************************************************************
\* __TITLE_REGEX =
\*   (?:\*\={3}\s)(.*)(?:\s-\sDaily\sProgrammer\s\={3}\*\n*?\*\[)(.*)(?:\]\*)
\***************************************************************************

\* \s-\sDaily\sProgrammer\s\={3}\*  occurs at position p (24 characters).
TitleMidAt(s, p) ==
    /\ CharAt(s, p) \in SpaceChars
    /\ CharAt(s, p + 1) = "-"
    /\ CharAt(s, p + 2) \in SpaceChars
    /\ LitAt(s, p + 3, <<"D", "a", "i", "l", "y">>)
    /\ CharAt(s, p + 8) \in SpaceChars
    /\ LitAt(s, p + 9, <<"P", "r", "o", "g", "r", "a", "m", "m", "e", "r">>)
    /\ CharAt(s, p + 19) \in SpaceChars
    /\ LitAt(s, p + 20, <<"=", "=", "=", "*">>)

\* Where group 2 starts when group 1 ends just before p, or 0: after the
\* middle literal, \n*? takes exactly the newlines that precede "*[" (the lazy
\* quantifier can stop nowhere else, "*" not being a newline).
TitleGroup2Start(s, p) ==
    IF ~TitleMidAt(s, p) THEN 0
    ELSE LET r == RunEnd(s, p + 24, {NL})
         IN  IF LitAt(s, r, <<"*", "[">>) THEN r + 2 ELSE 0

\* The positions of a "]*" that can close group 2 when it starts at b: the
\* second (.*) stays on the line of b.
TitleCloses(s, b) ==
    {f \in b..LineEnd(s, b) : LitAt(s, f, <<"]", "*">>)}

\* The rest of the pattern matches when group 1 ends just before p.
TitleTailOk(s, p) ==
    /\ TitleGroup2Start(s, p) # 0
    /\ TitleCloses(s, TitleGroup2Start(s, p)) # {}

NoMatch == [ok |-> FALSE, g1 |-> <<>>, g2 |-> <<>>, end |-> 0]

\* The match of __TITLE_REGEX that starts at position i.  Both (.*) are
\* greedy: the backtracking order tries the longest group 1 first, then the
\* longest group 2, so the match found is the one with the largest p, then
\* the largest f.
TitleMatchAt(s, i) ==
    IF ~(LitAt(s, i, <<"*", "=", "=", "=">>) /\ CharAt(s, i + 4) \in SpaceChars)
    THEN NoMatch
    ELSE LET ps == {p \in (i + 5)..LineEnd(s, i + 5) : TitleTailOk(s, p)}
         IN  IF ps = {} THEN NoMatch
             ELSE LET p == MaxOf(ps)
                      b == TitleGroup2Start(s, p)
                      f == MaxOf(TitleCloses(s, b))
                  IN  [ok |-> TRUE,
                       g1 |-> SubSeq(s, i + 5, p - 1),
                       g2 |-> SubSeq(s, b, f - 1),
                       end |-> f + 2]

RECURSIVE TitleSubFrom(_, _)
\* re.sub(__TITLE_REGEX, r"\2 -- \1", s), scanning from position i.
\* The leftmost match at or after i is replaced, the text before it is
\* copied, and the scan resumes after the match.
TitleSubFrom(s, i) ==
    LET starts == {k \in i..Len(s) : TitleMatchAt(s, k).ok}
    IN  IF starts = {} THEN SubSeq(s, i, Len(s))
        ELSE LET k == MinOf(starts)
                 m == TitleMatchAt(s, k)
             IN  SubSeq(s, i, k - 1) \o m.g2 \o TitleJoin \o m.g1
                 \o TitleSubFrom(s, m.end)

TitleSub(s) == TitleSubFrom(s, 1)

\***************************************************************************
\* __CODE_BLOCS_REGEX = (```)((?:[^`]*\n*)*?)(```)
\***************************************************************************

\* Where the closing fence of a match that starts at i begins, or 0.  Group 2
\* is built of [^`] and \n only, so it consumes no backtick: it ends at the
\* first backtick after the opening fence, and the closing fence must be there.
CodeCloseAt(s, i) ==
    IF ~LitAt(s, i, Fence) THEN 0
    ELSE LET j == NextChar(s, i + 3, Tick)
         IN  IF LitAt(s, j, Fence) THEN j ELSE 0

RECURSIVE CodeSubFrom(_, _)
\* re.sub(__CODE_BLOCS_REGEX, r"\1\n\2\n\3", s), scanning from position i.
CodeSubFrom(s, i) ==
    LET starts == {k \in i..Len(s) : CodeCloseAt(s, k) # 0}
    IN  IF starts = {} THEN SubSeq(s, i, Len(s))
        ELSE LET k == MinOf(starts)
                 j == CodeCloseAt(s, k)
             IN  SubSeq(s, i, k - 1)
                 \o Fence \o <<NL>> \o SubSeq(s, k + 3, j - 1) \o <<NL>> \o Fence
                 \o CodeSubFrom(s, j + 3)

CodeSub(s) == CodeSubFrom(s, 1)

\***************************************************************************
\* __IMAGES_REGEX = <(https://assets\.leetcode\.com/uploads/.*?)>
\***************************************************************************

\* Where the ">" of a match that starts at i is, or 0: .*? is lazy and stays
\* on one line, so the match ends at the first ">" if no newline comes first.
ImageCloseAt(s, i) ==
    IF ~(CharAt(s, i) = "<" /\ LitAt(s, i + 1, ImagePrefix)) THEN 0
    ELSE LET k == NextChar(s, i + 1 + Len(ImagePrefix), ">")
         IN  IF k <= Len(s) /\ k <= LineEnd(s, i + 1 + Len(ImagePrefix))
             THEN k ELSE 0

RECURSIVE ImageSubFrom(_, _)
\* re.sub(__IMAGES_REGEX, r"![Illustration](\1)\n", s), scanning from i.
ImageSubFrom(s, i) ==
    LET starts == {j \in i..Len(s) : ImageCloseAt(s, j) # 0}
    IN  IF starts = {} THEN SubSeq(s, i, Len(s))
        ELSE LET j == MinOf(starts)
                 k == ImageCloseAt(s, j)
             IN  SubSeq(s, i, j - 1)
                 \o IllustrationOpen \o SubSeq(s, j + 1, k - 1) \o <<")", NL>>
                 \o ImageSubFrom(s, k + 1)

\* The substitution that stops after the first link.
ImageSub_once(s) ==
    LET starts == {j \in 1..Len(s) : ImageCloseAt(s, j) # 0}
    IN  IF starts = {} THEN s
        ELSE LET j == MinOf(starts)
                 k == ImageCloseAt(s, j)
             IN  SubSeq(s, 1, j - 1)
                 \o IllustrationOpen \o SubSeq(s, j + 1, k - 1) \o <<")", NL>>
                 \o SubSeq(s, k + 1, Len(s))

ImageSub(s) == ImageSubFrom(s, 1)

(***************************************************************************)
(* format_messages                                                         *)
(***************************************************************************)

\* A message is a record: hasText is FALSE when message.get('text') is None.
NoText == [hasText |-> FALSE, text |-> <<>>]

Msg(t) == [hasText |-> TRUE, text |-> t]

NotAChallenge_textless(message) == ~message.hasText

\* Step 0: the condition of the raise.
NotAChallenge(message) ==
    \/ ~message.hasText
    \/ ~ChallengeSearch(message.text)

TitleStep_unprefixed(text) == TitleSub(text)

\* 1st modification
TitleStep(text) == HeadingPrefix \o TitleSub(text)

CodeStep_skipped(text) == text

\* 2nd modification
CodeStep(text) == CodeSub(text)

\* 3rd modification
ImageStep(text) == ImageSub(text)

\* The outcome of format_messages(message): either MessageTypeException
\* carrying the message, or the returned text.
format_messages(message) ==
    IF NotAChallenge(message)
    THEN [raised |-> TRUE, message |-> message, text |-> <<>>]
    ELSE [raised |-> FALSE, message |-> message,
          text |-> ImageStep(CodeStep(TitleStep(message.text)))]


(***************************************************************************)
(* State                                                                   *)
(***************************************************************************)

VARIABLES
    pc,           \* where the running call is; "idle" when none is running
    call,         \* the submission being served: [kind, msgs]
    challenges,   \* write_history_to_file: the challenges argument
    mode,         \* write_history_to_file: the mode argument
    error,        \* the exception the last finished call surfaced, or "none"
    caught,       \* MessageTypeExceptions caught while serving the submission
    dirExists,    \* os.path.isdir('ToBePublished/')
    fileExists,   \* ToBePublished/index.md exists
    fileContent,  \* its content
    fileOpen,     \* the file object f of the with statement is open
    fileBefore,   \* the content of the file when the Writer was entered
    repo,         \* the git working tree in ToBePublished/
    remote,       \* the history of gh-pages on origin
    gitLog,       \* the git operations the current publish has issued
    entryRepo,    \* whether Repo(directory) succeeded at the publish's entry
    taken,        \* the state ("A" or "B") each publish so far has taken
    nWrites,      \* completed file writes
    nPublish,     \* invocations of publish_challenges
    nSubmit,      \* submissions accepted so far
    gitFailed,    \* some git operation has failed so far
    writeFailed,  \* some mkdir, open or write has failed so far
    fmt,          \* the run of format_messages under study: [message, stage, t]
    single        \* the class attribute __instance, the objects made, config.ini

ctlVars == <<pc, call, challenges, mode, error, caught>>

fsVars == <<dirExists, fileExists, fileContent, fileOpen>>

gitVars == <<repo, remote>>

ghostVars == <<fileBefore, gitLog, entryRepo, taken, nWrites, nPublish,
               gitFailed, writeFailed>>

vars == <<ctlVars, fsVars, gitVars, ghostVars, nSubmit, fmt, single>>

(***************************************************************************)
(* config.ini and read_config                                              *)
(***************************************************************************)

\* __CONFIG_FILE_PATH names a file that is missing, that does not decode, or
\* that is a sequence of lines: section headers, options, other lines.
MissingFile == [kind |-> "missing", lines |-> <<>>]

UndecodableFile == [kind |-> "undecodable", lines |-> <<>>]

TextFile(ls) == [kind |-> "text", lines |-> ls]

Section(name) == [t |-> "section", name |-> name, key |-> "", val |-> <<>>]

Option(key, val) == [t |-> "option", name |-> "", key |-> key, val |-> val]

\* A line that is neither a header nor key = value.
Garbage == [t |-> "garbage", name |-> "", key |-> "", val |-> <<>>]

NoConfig == [exc |-> "none", secs |-> {}, opts |-> {}, cur |-> "", bad |-> FALSE]

RECURSIVE ReadLines(_, _, _)
\* ConfigParser (strict) on the lines from the i-th on: a line before any
\* header and a repeated header or option raise at once, other bad lines
\* are collected into the ParsingError raised at the end of the file.
ReadLines(ls, i, c) ==
    IF c.exc # "none" THEN c
    ELSE IF i > Len(ls)
    THEN IF c.bad THEN [c EXCEPT !.exc = "ParsingError"] ELSE c
    ELSE LET l == ls[i]
         IN  IF l.t = "section"
             THEN IF l.name \in c.secs
                  THEN [c EXCEPT !.exc = "DuplicateSectionError"]
                  ELSE ReadLines(ls, i + 1,
                                 [c EXCEPT !.secs = @ \cup {l.name},
                                           !.cur = l.name])
             ELSE IF c.cur = ""
             THEN [c EXCEPT !.exc = "MissingSectionHeaderError"]
             ELSE IF l.t = "garbage"
             THEN ReadLines(ls, i + 1, [c EXCEPT !.bad = TRUE])
             ELSE IF \E o \in c.opts : o.sec = c.cur /\ o.key = l.key
             THEN [c EXCEPT !.exc = "DuplicateOptionError"]
             ELSE ReadLines(ls, i + 1,
                            [c EXCEPT !.opts = @ \cup
                                {[sec |-> c.cur, key |-> l.key, val |-> l.val]}])

\* config_object.read(path): a file that cannot be opened is passed over.
ConfigRead(file) ==
    CASE file.kind = "missing" -> NoConfig
      [] file.kind = "undecodable" -> [NoConfig EXCEPT !.exc = "UnicodeDecodeError"]
      [] file.kind = "text" -> ReadLines(file.lines, 1, NoConfig)

RECURSIVE Interpolate(_, _)
\* The value of an option as the section proxy returns it: "%%" stands for
\* "%", and a "%" followed by anything else is a syntax error.
Interpolate(v, i) ==
    IF i > Len(v) THEN [ok |-> TRUE, text |-> <<>>]
    ELSE IF v[i] # "%"
    THEN LET r == Interpolate(v, i + 1)
         IN  [ok |-> r.ok, text |-> <<v[i]>> \o r.text]
    ELSE IF i < Len(v) /\ v[i + 1] = "%"
    THEN LET r == Interpolate(v, i + 2)
         IN  [ok |-> r.ok, text |-> <<"%">> \o r.text]
    ELSE [ok |-> FALSE, text |-> <<>>]

\* The classes of the except clause; MissingSectionHeaderError is a
\* ParsingError.
ExceptClasses == {"NoOptionError", "ParsingError", "KeyError"}

BaseOf(e) == IF e = "MissingSectionHeaderError" THEN "ParsingError" ELSE e

Caught(e) == BaseOf(e) \in ExceptClasses

\* The body of the try statement: the exception it raises, or the URL it
\* assigns to self.__REPO_URL.
TryReadConfig(file) ==
    LET c == ConfigRead(file)
        found == {o \in c.opts : o.sec = "GitRepoInfo" /\ o.key = "repo"}
    IN  IF c.exc # "none" THEN [exc |-> c.exc, url |-> <<>>]
        ELSE IF "GitRepoInfo" \notin c.secs \/ found = {}
        THEN [exc |-> "KeyError", url |-> <<>>]
        ELSE LET v == Interpolate((CHOOSE o \in found : TRUE).val, 1)
             IN  IF ~v.ok THEN [exc |-> "InterpolationSyntaxError", url |-> <<>>]
                 ELSE IF v.text = <<>>
                 THEN [exc |-> "NoOptionError", url |-> <<>>]
                 ELSE [exc |-> "none", url |-> v.text]

\* read_config(): [exc] is the exception that leaves it ("none" when it
\* returns), [configured, url] the instance attribute it has set, if any.
read_config(file) ==
    LET t == TryReadConfig(file)
    IN  IF t.exc = "none"
        THEN [exc |-> "none", configured |-> TRUE, url |-> t.url]
        ELSE IF Caught(t.exc)
        THEN [exc |-> "none", configured |-> FALSE, url |-> <<>>]
        ELSE [exc |-> t.exc, configured |-> FALSE, url |-> <<>>]

(***************************************************************************)
(* Bounds and the inputs drawn from them                                   *)
(***************************************************************************)

\* Submissions a behaviour accepts.
MaxSubmissions == 3

\* Messages in one channel history.
MaxBatch == 2

MsgA == Msg(<<"=", "=", " ", "a", " ", "=", "=">>)

\* A challenge whose text holds an inline code block.
MsgB == Msg(<<"=", "=", " ", "b", " ", "=", "=", Tick, Tick, Tick, "x",
              Tick, Tick, Tick>>)

\* Ordinary chat: no banner.
MsgChat == Msg(<<"h", "i">>)

MsgEmpty == Msg(<<>>)

Messages == {MsgA, MsgB, MsgChat, MsgEmpty, NoText}

BatchMessages == {MsgA, MsgB, MsgChat, NoText}

SeqsUpTo(S, n) == UNION {[1..k -> S] : k \in 0..n}

\* The channel histories a single call of parse_channel_history is tried on.
Batches == SeqsUpTo(BatchMessages, MaxBatch)

\* The channel histories submitted in behaviours of several submissions: one
\* without a challenge, one with challenges around ordinary chat.
PipelineBatches == {<<MsgChat>>, <<MsgA, MsgChat, MsgB>>}

\* Contents and modes a direct caller of the Writer passes.
DirectContents == {<<"z">>}

Modes == {"a", "w", "x", "r"}

\* format_messages on each message of the model, computed once.
Formatted == [m \in Messages |-> format_messages(m)]

OldContent == <<"o", "l", "d">>

NoCall == [kind |-> "none", msgs |-> <<>>]

(***************************************************************************)
(* The git working tree                                                    *)
(***************************************************************************)

Branches == {"master", "gh-pages"}

\* __REPO_URL
REPO_URL == "git@github.com:73VW/Daily-Programmer-Bot.git"

InitialMessage == "Deploying to gh-pages"

\* A directory that is no working tree.
NoRepo ==
    [exists   |-> FALSE,
     user     |-> FALSE,
     origin   |-> "none",
     staged   |-> FALSE,
     index    |-> <<>>,
     branch   |-> "master",
     heads    |-> [b \in Branches |-> <<>>],
     upstream |-> FALSE]

\* The tip commit of branch b, defined when the branch has a commit.
Tip(r, b) == r.heads[b][Len(r.heads[b])]

HasTip(r, b) == r.heads[b] # <<>>

\* The operations of the two states, in the order the code issues them.
StateA == <<"add", "commit --amend --no-edit", "push -f">>

StateB ==
    <<"init", "config user.name", "config user.email", "create_remote origin",
      "add", "commit -m", "create_head gh-pages", "checkout gh-pages",
      "fetch origin", "push -f --set-upstream origin gh-pages">>


(***************************************************************************)
(* The singleton: getInstance and __init__                                 *)
(***************************************************************************)

\* Calls of getInstance and of the constructor in one behaviour.
MaxCalls == 3

\* Lines of config.ini.
MaxConfigLines == 3

\* A repository URL set in config.ini, one with a bare "%" and one with an
\* escaped "%".
CustomUrl == <<"git@example.org:me/site.git">>

PercentUrl == <<"git@example.org:me/", "%", "site.git">>

EscapedUrl == <<"git@example.org:me/", "%", "%", "site.git">>

ConfigLines ==
    {Section("GitRepoInfo"), Section("Other"), Garbage,
     Option("repo", CustomUrl), Option("repo", <<>>),
     Option("repo", PercentUrl), Option("repo", EscapedUrl),
     Option("other", <<"x">>)}

ConfigFiles ==
    {MissingFile, UndecodableFile}
    \cup {TextFile(ls) : ls \in UNION {[1..k -> ConfigLines] : k \in 0..MaxConfigLines}}

NoResult == [op |-> "none", exc |-> "none", value |-> 0]

\* Before any call: __instance is None (0), no object has been made.
NoHelper(file) ==
    [instance   |-> 0,
     objects    |-> 0,
     configured |-> FALSE,
     url        |-> <<>>,
     reads      |-> 0,
     cfgExc     |-> "none",
     file       |-> file,
     calls      |-> 0,
     last       |-> NoResult]

\* DailyProgrammerHelper(): a new object self, then __init__(self), which
\* raises when an instance is registered and otherwise registers self and
\* reads the configuration; an exception of read_config leaves the
\* constructor with self registered.
Construct(h) ==
    LET self == h.objects + 1
        rc == read_config(h.file)
    IN  IF h.instance # 0
        THEN [h EXCEPT !.objects = self,
                       !.last = [op |-> "constructor", exc |-> "Exception",
                                 value |-> 0]]
        ELSE [h EXCEPT !.objects = self, !.instance = self, !.reads = @ + 1,
                       !.cfgExc = rc.exc, !.configured = rc.configured,
                       !.url = rc.url,
                       !.last = [op |-> "constructor", exc |-> rc.exc,
                                 value |-> IF rc.exc = "none" THEN self ELSE 0]]

\* getInstance(): construct when __instance is None, return __instance.
getInstance(h) ==
    LET made == IF h.instance = 0 THEN Construct(h) ELSE h
    IN  IF h.instance = 0 /\ made.last.exc # "none"
        THEN [made EXCEPT !.last.op = "getInstance"]
        ELSE [made EXCEPT !.last = [op |-> "getInstance", exc |-> "none",
                                    value |-> made.instance]]

\* The helper the bot runs with: getInstance() without a config.ini.
DefaultHelper == [getInstance(NoHelper(MissingFile)) EXCEPT !.calls = 1]

\* self.__REPO_URL: the instance attribute when read_config has set it, the
\* class attribute otherwise.
RepoUrl == IF single.configured THEN single.url ELSE REPO_URL


(***************************************************************************)
(* parse_channel_history and parse_message                                 *)
(***************************************************************************)

Reversed_forward(messages) == messages

\* reversed(messages)
Reversed(messages) ==
    [i \in 1..Len(messages) |-> messages[Len(messages) + 1 - i]]

RECURSIVE Aggregate(_, _)
\* The for loop of parse_channel_history over the messages still to visit:
\* a formatted text is appended with the separator, a MessageTypeException
\* is passed over.
Aggregate(todo, complete_history) ==
    IF todo = <<>> THEN complete_history
    ELSE LET r == Formatted[Head(todo)]
         IN  Aggregate(Tail(todo),
                       IF r.raised THEN complete_history
                       ELSE complete_history \o r.text \o challenges_separator)

\* How many messages of msgs make format_messages raise.
Raising(msgs) == Cardinality({i \in 1..Len(msgs) : Formatted[msgs[i]].raised})

WriterCalled_always(complete_history) == TRUE

\* if complete_history != "":
WriterCalled(complete_history) == complete_history # <<>>

\* The call write_history_to_file(c, m): control enters the Writer.
EnterWriter(c, m) ==
    /\ pc' = "w_mode"
    /\ challenges' = c
    /\ mode' = m
    /\ fileBefore' = IF fileExists THEN fileContent ELSE <<>>

\* A call returns to the external driver without reaching the Writer.
ReturnEarly ==
    /\ pc' = "idle"
    /\ challenges' = <<>>
    /\ mode' = "none"
    /\ fileBefore' = <<>>

\* A submission is accepted: what the previous one left behind for
\* inspection is cleared.
Accept ==
    /\ pc = "idle"
    /\ error' = "none"
    /\ gitLog' = <<>>
    /\ entryRepo' = FALSE
    /\ nSubmit' = nSubmit + 1
    /\ UNCHANGED <<fsVars, gitVars, taken, nWrites, nPublish, gitFailed,
                   writeFailed, fmt, single>>

\* parse_channel_history(channel_history), messages newest first.
SubmitHistory(msgs) ==
    LET complete_history == Aggregate(Reversed(msgs), <<>>)
    IN  /\ Accept
        /\ call' = [kind |-> "history", msgs |-> msgs]
        /\ caught' = Raising(msgs)
        /\ IF WriterCalled(complete_history)
           THEN EnterWriter(complete_history, "w")
           ELSE ReturnEarly

\* parse_message(message)
SubmitMessage(message) ==
    LET r == Formatted[message]
    IN  /\ Accept
        /\ call' = [kind |-> "message", msgs |-> <<message>>]
        /\ IF r.raised
           THEN caught' = 1 /\ ReturnEarly
           ELSE caught' = 0 /\ EnterWriter(r.text, "a")

CanSubmit == nSubmit < MaxSubmissions

ParseChannelHistory ==
    /\ CanSubmit
    /\ \E msgs \in PipelineBatches : SubmitHistory(msgs)

ParseMessage ==
    /\ CanSubmit
    /\ \E message \in Messages : SubmitMessage(message)

\* A caller that uses the Writer directly, with a mode of its choice.
WriteHistoryToFile ==
    /\ CanSubmit
    /\ Accept
    /\ \E c \in DirectContents, m \in Modes :
         /\ call' = [kind |-> "write", msgs |-> <<>>]
         /\ EnterWriter(c, m)
    /\ caught' = 0

(***************************************************************************)
(* write_history_to_file                                                   *)
(***************************************************************************)

\* An exception leaves the running call and reaches the external driver.
Raise(e) ==
    /\ pc' = "idle"
    /\ error' = e
    /\ challenges' = <<>>
    /\ mode' = "none"

ValidMode_any(m) == TRUE

\* mode in ('a', 'w')
ValidMode(m) == m \in {"a", "w"}

WriteCheckMode ==
    /\ pc = "w_mode"
    /\ IF ValidMode(mode)
       THEN pc' = "w_mkdir" /\ UNCHANGED <<error, challenges, mode>>
       ELSE Raise("FileOpeningModeException")
    /\ UNCHANGED <<call, caught, fsVars, gitVars, ghostVars, nSubmit, fmt, single>>

\* if not os.path.isdir(directory): os.mkdir(directory) -- which may fail.
WriteMkdir ==
    /\ pc = "w_mkdir"
    /\ \/ /\ dirExists' = TRUE
          /\ pc' = "w_open"
          /\ UNCHANGED <<error, challenges, mode, writeFailed>>
       \/ /\ ~dirExists
          /\ Raise("OSError")
          /\ writeFailed' = TRUE
          /\ UNCHANGED dirExists
    /\ UNCHANGED <<call, caught, fileExists, fileContent, fileOpen, gitVars,
                   fileBefore, gitLog, entryRepo, taken, nWrites, nPublish,
                   gitFailed, nSubmit, fmt, single>>

\* The content open(path, m) leaves in the file: 'w' truncates, 'a' keeps.
Opened(old, m) == IF m = "w" THEN <<>> ELSE old

\* open(os.path.join(directory, filename), mode) -- which may fail, and then
\* leaves the file as it was.
WriteOpen ==
    /\ pc = "w_open"
    /\ \/ /\ fileExists' = TRUE
          /\ fileContent' = Opened(IF fileExists THEN fileContent ELSE <<>>, mode)
          /\ fileOpen' = TRUE
          /\ pc' = "w_write"
          /\ UNCHANGED <<error, challenges, mode, writeFailed>>
       \/ /\ Raise("OSError")
          /\ writeFailed' = TRUE
          /\ UNCHANGED <<fileExists, fileContent, fileOpen>>
    /\ UNCHANGED <<call, caught, dirExists, gitVars, fileBefore, gitLog,
                   entryRepo, taken, nWrites, nPublish, gitFailed, nSubmit, fmt, single>>

Written_separated(content, c) == content \o c \o challenges_separator

\* f.writelines(challenges): the characters of the string, one after another.
Written(content, c) == content \o c

NextAfterWrite_swallow(ok) == "publish"

\* An exception raised inside the with statement skips the call of
\* publish_challenges that follows it.
NextAfterWrite(ok) == IF ok THEN "publish" ELSE "error"

\* The body of the with statement and its exit, which closes the file on
\* success and on failure alike; a failed write may have written a part.
WriteLines ==
    /\ pc = "w_write"
    /\ fileOpen' = FALSE
    /\ \/ /\ fileContent' = Written(fileContent, challenges)
          /\ nWrites' = nWrites + 1
          /\ pc' = NextAfterWrite(TRUE)
          /\ UNCHANGED <<error, challenges, mode, writeFailed>>
       \/ /\ \E n \in {0, Len(challenges) \div 2} :
               fileContent' = Written(fileContent, SubSeq(challenges, 1, n))
          /\ writeFailed' = TRUE
          /\ UNCHANGED nWrites
          /\ IF NextAfterWrite(FALSE) = "error"
             THEN Raise("OSError")
             ELSE pc' = NextAfterWrite(FALSE) /\ UNCHANGED <<error, challenges, mode>>
    /\ UNCHANGED <<call, caught, dirExists, fileExists, gitVars, fileBefore,
                   gitLog, entryRepo, taken, nPublish, gitFailed, nSubmit, fmt, single>>


(***************************************************************************)
(* publish_challenges                                                      *)
(***************************************************************************)

PublishState_fresh(isRepo) == "B"

PublishState_existing(isRepo) == "A"

\* Repo(directory) succeeds on a working tree (State A follows in the try
\* block) and raises InvalidGitRepositoryError otherwise (State B follows in
\* the except block).
PublishState(isRepo) == IF isRepo THEN "A" ELSE "B"

PublishEntry ==
    /\ pc = "publish"
    /\ nPublish' = nPublish + 1
    /\ gitLog' = <<>>
    /\ entryRepo' = repo.exists
    /\ taken' = Append(taken, PublishState(repo.exists))
    /\ pc' = IF PublishState(repo.exists) = "A" THEN "A_add" ELSE "B_init"
    /\ UNCHANGED <<call, challenges, mode, error, caught, fsVars, gitVars,
                   fileBefore, nWrites, gitFailed, writeFailed, nSubmit, fmt, single>>

\* A git operation succeeds: the working tree becomes r, the remote rem.
GitOk(next, ops, r, rem) ==
    /\ pc' = next
    /\ repo' = r
    /\ remote' = rem
    /\ gitLog' = gitLog \o ops
    /\ UNCHANGED <<call, challenges, mode, error, caught, fsVars, fileBefore,
                   entryRepo, taken, nWrites, nPublish, gitFailed,
                   writeFailed, nSubmit, fmt, single>>

\* A git operation fails: GitCommandError is caught nowhere.
GitRaise(ops) ==
    /\ Raise("GitCommandError")
    /\ gitFailed' = TRUE
    /\ gitLog' = gitLog \o ops
    /\ UNCHANGED <<call, caught, fsVars, gitVars, fileBefore, entryRepo,
                   taken, nWrites, nPublish, writeFailed, nSubmit, fmt, single>>

\* git add '.': the index takes the files of the directory, here index.md.
StageAll(r) == [r EXCEPT !.staged = fileExists, !.index = fileContent]

Amend_stale(r) == r

\* An amend that commits on top of the tip.
Amend_ontop(r) ==
    [r EXCEPT !.heads[r.branch] =
        Append(@, [message |-> @[Len(@)].message, tree |-> r.index])]

\* git commit --amend --no-edit: the tip is replaced by a commit of the index
\* that keeps the tip's message.
Amend(r) ==
    [r EXCEPT !.heads[r.branch] =
        [@ EXCEPT ![Len(@)] = [message |-> @.message, tree |-> r.index]]]

\* git commit -m message: a commit of the index on top of the branch.
Commit(r, message) ==
    [r EXCEPT !.heads[r.branch] =
        Append(@, [message |-> message, tree |-> r.index])]

\* ---- State A: the directory is a working tree ----

AAdd ==
    /\ pc = "A_add"
    /\ GitOk("A_amend", <<StateA[1]>>, StageAll(repo), remote)

\* Fails when the branch has no commit to amend.
AAmend ==
    /\ pc = "A_amend"
    /\ \/ /\ HasTip(repo, repo.branch)
          /\ GitOk("A_push", <<StateA[2]>>, Amend(repo), remote)
       \/ GitRaise(<<StateA[2]>>)

\* git push -f: the current branch goes to its upstream; fails when it has
\* none, or when the transport fails.
APush ==
    /\ pc = "A_push"
    /\ \/ /\ repo.upstream /\ repo.branch = "gh-pages" /\ repo.origin # "none"
          /\ GitOk("p_done", <<StateA[3]>>, repo, repo.heads[repo.branch])
       \/ GitRaise(<<StateA[3]>>)

\* ---- State B: the directory is no working tree ----

BInit ==
    /\ pc = "B_init"
    /\ GitOk("B_config", <<StateB[1]>>, [NoRepo EXCEPT !.exists = TRUE], remote)

BConfig ==
    /\ pc = "B_config"
    /\ GitOk("B_remote", <<StateB[2], StateB[3]>>,
             [repo EXCEPT !.user = TRUE], remote)

BCreateRemote ==
    /\ pc = "B_remote"
    /\ \/ /\ repo.origin = "none"
          /\ GitOk("B_add", <<StateB[4]>>, [repo EXCEPT !.origin = RepoUrl],
                   remote)
       \/ GitRaise(<<StateB[4]>>)

BAdd ==
    /\ pc = "B_add"
    /\ GitOk("B_commit", <<StateB[5]>>, StageAll(repo), remote)

BCommit ==
    /\ pc = "B_commit"
    /\ \/ /\ repo.user /\ repo.staged
          /\ GitOk("B_head", <<StateB[6]>>, Commit(repo, InitialMessage), remote)
       \/ GitRaise(<<StateB[6]>>)

\* repo.create_head('gh-pages'): a new branch at the commit of HEAD.
BCreateHead ==
    /\ pc = "B_head"
    /\ \/ /\ HasTip(repo, repo.branch) /\ ~HasTip(repo, "gh-pages")
          /\ GitOk("B_checkout", <<StateB[7]>>,
                   [repo EXCEPT !.heads["gh-pages"] = repo.heads[repo.branch]],
                   remote)
       \/ GitRaise(<<StateB[7]>>)

BCheckout ==
    /\ pc = "B_checkout"
    /\ GitOk("B_fetch", <<StateB[8]>>, [repo EXCEPT !.branch = "gh-pages"],
             remote)

BFetch ==
    /\ pc = "B_fetch"
    /\ \/ /\ repo.origin # "none"
          /\ GitOk("B_push", <<StateB[9]>>, repo, remote)
       \/ GitRaise(<<StateB[9]>>)

BPush ==
    /\ pc = "B_push"
    /\ \/ /\ repo.origin # "none" /\ HasTip(repo, "gh-pages")
          /\ GitOk("p_done", <<StateB[10]>>, [repo EXCEPT !.upstream = TRUE],
                   repo.heads["gh-pages"])
       \/ GitRaise(<<StateB[10]>>)

\* print("Done."): publish_challenges, the Writer and the handler return.
PublishDone ==
    /\ pc = "p_done"
    /\ pc' = "idle"
    /\ challenges' = <<>>
    /\ mode' = "none"
    /\ UNCHANGED <<call, error, caught, fsVars, gitVars, ghostVars, nSubmit, fmt, single>>

(***************************************************************************)
(* The pipeline                                                            *)
(***************************************************************************)

\* No run of format_messages is under study.
FmtIdle == [parts |-> <<>>, message |-> NoText, stage |-> "none",
            t1 |-> <<>>, t2 |-> <<>>, t3 |-> <<>>]

PipelineInit ==
    /\ pc = "idle"
    /\ call = NoCall
    /\ challenges = <<>>
    /\ mode = "none"
    /\ error = "none"
    /\ caught = 0
    /\ \/ dirExists = FALSE /\ fileExists = FALSE /\ fileContent = <<>>
       \/ dirExists = TRUE /\ fileExists = FALSE /\ fileContent = <<>>
       \/ dirExists = TRUE /\ fileExists = TRUE /\ fileContent = OldContent
    /\ fileOpen = FALSE
    /\ fileBefore = <<>>
    /\ repo = NoRepo
    /\ remote = <<>>
    /\ gitLog = <<>>
    /\ entryRepo = FALSE
    /\ taken = <<>>
    /\ nWrites = 0
    /\ nPublish = 0
    /\ nSubmit = 0
    /\ gitFailed = FALSE
    /\ writeFailed = FALSE

Init == PipelineInit /\ fmt = FmtIdle /\ single = DefaultHelper

Next ==
    \/ ParseChannelHistory
    \/ ParseMessage
    \/ WriteHistoryToFile
    \/ WriteCheckMode
    \/ WriteMkdir
    \/ WriteOpen
    \/ WriteLines
    \/ PublishEntry
    \/ AAdd
    \/ AAmend
    \/ APush
    \/ BInit
    \/ BConfig
    \/ BCreateRemote
    \/ BAdd
    \/ BCommit
    \/ BCreateHead
    \/ BCheckout
    \/ BFetch
    \/ BPush
    \/ PublishDone

Spec == Init /\ [][Next]_vars


(***************************************************************************)
(* One call of a handler, from the states earlier runs leave behind        *)
(***************************************************************************)

\* The working tree and the remote after a run that published content c.
PublishedRepo(c) ==
    [exists   |-> TRUE,
     user     |-> TRUE,
     origin   |-> REPO_URL,
     staged   |-> TRUE,
     index    |-> c,
     branch   |-> "gh-pages",
     heads    |-> [b \in Branches |->
                     <<[message |-> InitialMessage, tree |-> c]>>],
     upstream |-> TRUE]

\* Either a first run, or a run that follows one which published OldContent.
ParseInit ==
    /\ pc = "idle"
    /\ call = NoCall
    /\ challenges = <<>>
    /\ mode = "none"
    /\ error = "none"
    /\ caught = 0
    /\ fileOpen = FALSE
    /\ fileBefore = <<>>
    /\ gitLog = <<>>
    /\ entryRepo = FALSE
    /\ taken = <<>>
    /\ nWrites = 0
    /\ nPublish = 0
    /\ nSubmit = 0
    /\ gitFailed = FALSE
    /\ writeFailed = FALSE
    /\ fmt = FmtIdle
    /\ single = DefaultHelper
    /\ \/ /\ dirExists = FALSE /\ fileExists = FALSE /\ fileContent = <<>>
          /\ repo = NoRepo /\ remote = <<>>
       \/ /\ dirExists = TRUE /\ fileExists = TRUE /\ fileContent = OldContent
          /\ repo = PublishedRepo(OldContent)
          /\ remote = PublishedRepo(OldContent).heads["gh-pages"]

ParseOneHistory ==
    /\ call = NoCall
    /\ \E msgs \in Batches : SubmitHistory(msgs)

ParseOneMessage ==
    /\ call = NoCall
    /\ \E message \in Messages : SubmitMessage(message)

ParseNext ==
    \/ ParseOneHistory
    \/ ParseOneMessage
    \/ WriteCheckMode
    \/ WriteMkdir
    \/ WriteOpen
    \/ WriteLines
    \/ PublishEntry
    \/ AAdd
    \/ AAmend
    \/ APush
    \/ BInit
    \/ BConfig
    \/ BCreateRemote
    \/ BAdd
    \/ BCommit
    \/ BCreateHead
    \/ BCheckout
    \/ BFetch
    \/ BPush
    \/ PublishDone

SpecParse == ParseInit /\ [][ParseNext]_vars

(***************************************************************************)
(* format_messages, one modification at a time                             *)
(***************************************************************************)

\* Blank lines tried between the banner line and the title line.
MaxBlankLines == 2

\* Parts of a text that follow the banner in the texts of the code family.
MaxCodeParts == 3

\* A text is described by its parts; Render gives the characters.
Plain(a) == [k |-> "plain", a |-> a, b |-> <<>>, n |-> 0]

\* An inline fenced block: the body between two fences, on their lines.
Block(a) == [k |-> "block", a |-> a, b |-> <<>>, n |-> 0]

\* The two title lines: date phrase a, title b, n newlines between them.
Title(a, b, n) == [k |-> "title", a |-> a, b |-> b, n |-> n]

\* Parts of a text that follow the banner in the texts of the image family.
MaxImageParts == 2

\* A bracketed URL under the image host: "<", the prefix, the rest a, ">".
Image(a) == [k |-> "image", a |-> a, b |-> <<>>, n |-> 0]

\* A bracketed URL a under another prefix.
Link(a) == [k |-> "link", a |-> a, b |-> <<>>, n |-> 0]

\* An inline fenced block whose body is the image link of rest a.
ImageBlock(a) == [k |-> "imageblock", a |-> a, b |-> <<>>, n |-> 0]

TitleOpen == <<"*", "=", "=", "=", " ">>

TitleClose ==
    <<" ", "-", " ", "D", "a", "i", "l", "y", " ", "P", "r", "o", "g", "r",
      "a", "m", "m", "e", "r", " ", "=", "=", "=", "*">>

Newlines(n) == [i \in 1..n |-> NL]

Render(part) ==
    CASE part.k = "plain" -> part.a
      [] part.k = "block" -> Fence \o part.a \o Fence
      [] part.k = "title" ->
            TitleOpen \o part.a \o TitleClose \o Newlines(part.n)
            \o <<"*", "[">> \o part.b \o <<"]", "*">>
      [] part.k = "image" -> <<"<">> \o ImagePrefix \o part.a \o <<">">>
      [] part.k = "link" -> <<"<">> \o part.a \o <<">">>
      [] part.k = "imageblock" ->
            Fence \o <<"<">> \o ImagePrefix \o part.a \o <<">">> \o Fence

RenderAll(parts) == Concat([i \in 1..Len(parts) |-> Render(parts[i])])

Banner == <<"=", "=", " ", "a", " ", "=", "=">>

CodeParts ==
    {Plain(<<"a">>), Plain(<<NL>>), Plain(<<Tick>>),
     Block(<<>>), Block(<<"x", NL, "y">>)}

\* The code family: a banner, then plain text, fenced blocks and stray
\* backticks in any order.
CodeInputs ==
    {<<Plain(Banner)>> \o ps : ps \in SeqsUpTo(CodeParts, MaxCodeParts)}

Dates == {<<"M", "o", "n", " ", "1">>, <<"1", "/", "2">>}

Titles == {<<"T">>, <<"a", "]", "*", "b">>, Fence \o <<"c">> \o Fence}

Befores == {<<>>, <<"x">>, <<"x", NL>>}

Afters ==
    {<<>>, <<NL, "b", "o", "d", "y">>, <<" ", "z", "]", "*">>,
     <<" ", "y">> \o TitleClose \o <<NL, "*", "[", "U", "]", "*">>}

\* The title family: the two title lines, with text before and after them.
TitleInputs ==
    {<<Plain(x), Title(d, t, n), Plain(y)>> :
        x \in Befores, d \in Dates, t \in Titles, n \in 0..MaxBlankLines,
        y \in Afters}

\* Rests of image URLs: a file name, a path with a query, nothing.
ImageRests == {<<"a", ".", "p", "n", "g">>, <<"b", "/", "c", "?", "d">>, <<>>}

\* URLs that miss the prefix: another scheme, another path on the host.
OtherUrls ==
    {<<"h", "t", "t", "p", ":", "/", "/">>
        \o SubSeq(ImagePrefix, 9, Len(ImagePrefix)) \o <<"a">>,
     SubSeq(ImagePrefix, 1, Len(ImagePrefix) - 2) \o <<"/", "a">>}

ImageParts ==
    {Plain(<<"a">>), Plain(<<"<">>), Plain(<<">", NL>>)}
    \cup {Image(r) : r \in ImageRests}
    \cup {Link(u) : u \in OtherUrls}
    \cup {ImageBlock(<<"a">>)}

\* The image family: a banner, then plain text, image links, other links and
\* an image link in a code block, in any order.
ImageInputs ==
    {<<Plain(Banner)>> \o ps : ps \in SeqsUpTo(ImageParts, MaxImageParts)}

\* Texts without a banner, and the message without text.
OtherInputs == {<<>>, <<Plain(<<"h", "i">>)>>}

FormatInputs == CodeInputs \cup TitleInputs \cup ImageInputs \cup OtherInputs

FormatInit ==
    /\ pc = "idle"
    /\ call = NoCall
    /\ challenges = <<>>
    /\ mode = "none"
    /\ error = "none"
    /\ caught = 0
    /\ dirExists = FALSE /\ fileExists = FALSE /\ fileContent = <<>>
    /\ fileOpen = FALSE
    /\ fileBefore = <<>>
    /\ repo = NoRepo
    /\ remote = <<>>
    /\ gitLog = <<>>
    /\ entryRepo = FALSE
    /\ taken = <<>>
    /\ nWrites = 0
    /\ nPublish = 0
    /\ nSubmit = 0
    /\ gitFailed = FALSE
    /\ writeFailed = FALSE
    /\ single = DefaultHelper
    /\ \/ \E parts \in FormatInputs :
            fmt = [FmtIdle EXCEPT !.parts = parts,
                                  !.message = Msg(RenderAll(parts)),
                                  !.stage = "called"]
       \/ fmt = [FmtIdle EXCEPT !.stage = "called"]

pipelineVars == <<ctlVars, fsVars, gitVars, ghostVars, nSubmit, single>>

\* text = message.get('text'); the test of the if statement.
FormatCheck ==
    /\ fmt.stage = "called"
    /\ fmt' = [fmt EXCEPT !.stage = IF NotAChallenge(fmt.message)
                                    THEN "raised" ELSE "title"]
    /\ UNCHANGED pipelineVars

FormatTitle ==
    /\ fmt.stage = "title"
    /\ fmt' = [fmt EXCEPT !.stage = "code", !.t1 = TitleStep(fmt.message.text)]
    /\ UNCHANGED pipelineVars

FormatCode ==
    /\ fmt.stage = "code"
    /\ fmt' = [fmt EXCEPT !.stage = "images", !.t2 = CodeStep(fmt.t1)]
    /\ UNCHANGED pipelineVars

FormatImages ==
    /\ fmt.stage = "images"
    /\ fmt' = [fmt EXCEPT !.stage = "returned", !.t3 = ImageStep(fmt.t2)]
    /\ UNCHANGED pipelineVars

FormatNext == FormatCheck \/ FormatTitle \/ FormatCode \/ FormatImages

SpecFormat == FormatInit /\ [][FormatNext]_vars


(***************************************************************************)
(* The lifecycle of the instance                                           *)
(***************************************************************************)

InstanceInit ==
    /\ pc = "idle"
    /\ call = NoCall
    /\ challenges = <<>>
    /\ mode = "none"
    /\ error = "none"
    /\ caught = 0
    /\ dirExists = FALSE /\ fileExists = FALSE /\ fileContent = <<>>
    /\ fileOpen = FALSE
    /\ fileBefore = <<>>
    /\ repo = NoRepo
    /\ remote = <<>>
    /\ gitLog = <<>>
    /\ entryRepo = FALSE
    /\ taken = <<>>
    /\ nWrites = 0
    /\ nPublish = 0
    /\ nSubmit = 0
    /\ gitFailed = FALSE
    /\ writeFailed = FALSE
    /\ fmt = FmtIdle
    /\ \E file \in ConfigFiles : single = NoHelper(file)

restVars == <<ctlVars, fsVars, gitVars, ghostVars, nSubmit, fmt>>

\* await DailyProgrammerHelper.getInstance()
CallGetInstance ==
    /\ single.calls < MaxCalls
    /\ single' = [getInstance(single) EXCEPT !.calls = @ + 1]
    /\ UNCHANGED restVars

\* DailyProgrammerHelper()
CallConstructor ==
    /\ single.calls < MaxCalls
    /\ single' = [Construct(single) EXCEPT !.calls = @ + 1]
    /\ UNCHANGED restVars

InstanceNext == CallGetInstance \/ CallConstructor

SpecInstance == InstanceInit /\ [][InstanceNext]_vars


(***************************************************************************)
(* Vocabulary of the properties                                            *)
(***************************************************************************)

\* The message matches the challenge pattern.
IsChallenge(m) == m.hasText /\ ChallengeSearch(m.text)

\* The Challenge Document of a matching message: its three modifications.
Doc(m) == ImageStep(CodeStep(TitleStep(m.text)))

FixedSeparator == <<NL, NL, NL, "-", "-", "-", NL, NL, NL>>

RECURSIVE ExpectedBlob(_)
\* The documents of the matching messages of msgs (newest first), oldest
\* first, each followed by the separator.
ExpectedBlob(msgs) ==
    IF msgs = <<>> THEN <<>>
    ELSE ExpectedBlob(Tail(msgs))
         \o (IF IsChallenge(Head(msgs))
             THEN Doc(Head(msgs)) \o FixedSeparator ELSE <<>>)

Matching(msgs) == {i \in 1..Len(msgs) : IsChallenge(msgs[i])}

\* This step is the acceptance of a submission of the given kind.
Accepting(kind) ==
    pc = "idle" /\ nSubmit' = nSubmit + 1 /\ call'.kind = kind

\* The step leaves the disk, the working tree and the remote as they were,
\* and neither writes nor publishes.
NoEffect ==
    UNCHANGED <<dirExists, fileExists, fileContent, repo, remote, nWrites,
                nPublish>>

PublishPcs ==
    {"A_add", "A_amend", "A_push", "B_init", "B_config", "B_remote", "B_add",
     "B_commit", "B_head", "B_checkout", "B_fetch", "B_push", "p_done"}

\* C1: publish_challenges is invoked exactly when a file write has completed,
\* after the write and with the file closed: the publishes so far are the
\* completed writes so far, less the one write whose publish is about to be
\* invoked; a failed mkdir, open or write invokes none.
C1_PublishFollowsWrite ==
    /\ nWrites = nPublish + (IF pc = "publish" THEN 1 ELSE 0)
    /\ pc \in PublishPcs \cup {"publish"} =>
          /\ ~fileOpen
          /\ fileExists
          /\ fileContent = (IF mode = "w" THEN challenges
                            ELSE fileBefore \o challenges)
    /\ (pc = "idle" /\ error = "OSError") => gitLog = <<>>

\* A write failed in one submission and two writes were published.
C1_Witness ==
    pc = "idle" /\ writeFailed /\ nPublish = 2 /\ nWrites = 2

\* C2: a history with at least one matching message hands the Writer, in
\* overwrite mode, exactly the documents of its matching messages in
\* chronological order, each followed by the separator.
C2_BlobHandedToWriter ==
    [][(Accepting("history") /\ Matching(call'.msgs) # {}) =>
          /\ pc' = "w_mode"
          /\ mode' = "w"
          /\ challenges' = ExpectedBlob(call'.msgs)]_vars

\* Two different challenges in one history reached the Writer.
C2_Witness ==
    /\ pc = "w_mode"
    /\ call.kind = "history"
    /\ Len(call.msgs) = 2
    /\ Matching(call.msgs) = {1, 2}
    /\ call.msgs[1] # call.msgs[2]

\* C3: a history without a matching message (the empty one included) returns
\* without entering the Writer: no directory, no file change, no publish.
C3_NoMatchNoWrite ==
    [][(Accepting("history") /\ Matching(call'.msgs) = {}) =>
          /\ pc' = "idle"
          /\ NoEffect]_vars

\* A history of ordinary chat returned and the directory still does not exist.
C3_Witness ==
    /\ pc = "idle"
    /\ call.kind = "history"
    /\ call.msgs # <<>>
    /\ Matching(call.msgs) = {}
    /\ ~dirExists

\* The working tree has gh-pages checked out and its tip holds the file.
TipCarriesFile ==
    /\ repo.branch = "gh-pages"
    /\ HasTip(repo, "gh-pages")
    /\ fileExists
    /\ Tip(repo, "gh-pages").tree = fileContent

IsPrefixOf(p, q) == Len(p) <= Len(q) /\ SubSeq(q, 1, Len(p)) = p

\* C5: a publish issues the operations of State A when the directory was a
\* working tree at its entry and those of State B when it was not, in that
\* order and nothing else (all of them when it completes, the first ones when
\* an operation fails); the first publish takes State B, every later one
\* State A.
C5_TwoSequences ==
    /\ IsPrefixOf(gitLog, IF entryRepo THEN StateA ELSE StateB)
    /\ pc = "p_done" => gitLog = (IF entryRepo THEN StateA ELSE StateB)
    /\ pc \in {"A_add", "A_amend", "A_push"} => entryRepo
    /\ pc \in PublishPcs \ {"A_add", "A_amend", "A_push", "p_done"} => ~entryRepo
    /\ \A i \in 1..Len(taken) : taken[i] = (IF i = 1 THEN "B" ELSE "A")
    /\ Len(taken) = nPublish

\* A second publish completed, with the operations of State A.
C5_Witness ==
    /\ pc = "p_done"
    /\ taken = <<"B", "A">>
    /\ gitLog = <<"add", "commit --amend --no-edit", "push -f">>

\* C6: once the write has succeeded the file holds, after
\* parse_channel_history, exactly the aggregated blob whatever it held
\* before, and after parse_message its previous content (none if it was
\* missing) followed by the message's document.
C6_FileContent ==
    pc = "publish" =>
        /\ fileExists
        /\ call.kind = "history" => fileContent = ExpectedBlob(call.msgs)
        /\ call.kind = "message" =>
              fileContent = fileBefore \o Doc(call.msgs[1])

\* A message was appended to a file that held something, and a history
\* overwrote one.
C6_Witness ==
    /\ pc = "publish"
    /\ call.kind = "message"
    /\ fileBefore # <<>>
    /\ nWrites = 2

\* C7: format_messages raises MessageTypeException, carrying the message, for
\* a message whose text is absent, empty or matches no challenge pattern; the
\* exception reaches no caller; parse_message on such a message returns with
\* no effect, and parse_channel_history passes over each such message.
C7_NotAChallenge ==
    [][/\ error' # "MessageTypeException"
       /\ \A m \in Messages :
             (~m.hasText \/ m.text = <<>> \/ ~ChallengeSearch(m.text)) =>
                 /\ format_messages(m).raised
                 /\ format_messages(m).message = m
       /\ (Accepting("message") /\ ~IsChallenge(call'.msgs[1])) =>
             /\ pc' = "idle"
             /\ error' = "none"
             /\ caught' = 1
             /\ NoEffect
       /\ Accepting("history") =>
             /\ error' = "none"
             /\ caught' = Len(call'.msgs) - Cardinality(Matching(call'.msgs))
             /\ pc' = "w_mode" => challenges' = ExpectedBlob(call'.msgs)]_vars

\* parse_message returned from a message of ordinary chat.
C7_Witness ==
    /\ pc = "idle"
    /\ call.kind = "message"
    /\ call.msgs = <<MsgChat>>
    /\ caught = 1
    /\ error = "none"

\* C8: with a mode other than 'a' and 'w' the Writer raises
\* FileOpeningModeException to its caller before it touches anything.
C8_InvalidMode ==
    [][(pc = "w_mode" /\ mode \notin {"a", "w"}) =>
          /\ pc' = "idle"
          /\ error' = "FileOpeningModeException"
          /\ NoEffect
          /\ UNCHANGED fileOpen]_vars

\* The Writer refused a mode and the directory still does not exist.
C8_Witness ==
    /\ pc = "idle"
    /\ call.kind = "write"
    /\ error = "FileOpeningModeException"
    /\ ~dirExists
    /\ ~fileExists


\* The text consists of plain pieces without backtick and of inline fenced
\* blocks whose bodies hold no backtick.
WellFenced(parts) ==
    \A i \in 1..Len(parts) :
        /\ parts[i].k \in {"plain", "block"}
        /\ \A j \in 1..Len(parts[i].a) : parts[i].a[j] # Tick

BlocksOf(parts) == {i \in 1..Len(parts) : parts[i].k = "block"}

\* The text with every block body set between k newlines on either side.
Fenced(parts, k) ==
    Concat([i \in 1..Len(parts) |->
              IF parts[i].k = "block"
              THEN Fence \o Newlines(k) \o parts[i].a \o Newlines(k) \o Fence
              ELSE parts[i].a])

CodeStepDone == fmt.stage \in {"images", "returned"}

\* C9 as stated: every inline block comes out as fence, newline, body,
\* newline, fence, and a second application of the step changes nothing.
C9_Original ==
    (CodeStepDone /\ WellFenced(fmt.parts)) =>
        /\ fmt.t2 = HeadingPrefix \o Fenced(fmt.parts, 1)
        /\ CodeStep(fmt.t2) = fmt.t2

\* C9, amended: every inline block comes out as fence, newline, body,
\* newline, fence; a second application of the step sets one more newline
\* after each opening and before each closing fence, so that it changes
\* nothing only in a text without fenced block.
C9_CodeBlocks ==
    (CodeStepDone /\ WellFenced(fmt.parts)) =>
        /\ fmt.t2 = HeadingPrefix \o Fenced(fmt.parts, 1)
        /\ CodeStep(fmt.t2) = HeadingPrefix \o Fenced(fmt.parts, 2)
        /\ (CodeStep(fmt.t2) = fmt.t2) <=> (BlocksOf(fmt.parts) = {})

\* The step has run on a text with two blocks, one of them of two lines.
C9_Witness ==
    /\ fmt.stage = "returned"
    /\ WellFenced(fmt.parts)
    /\ Cardinality(BlocksOf(fmt.parts)) = 2
    /\ \E i \in BlocksOf(fmt.parts) : Len(fmt.parts[i].a) = 3
    /\ CodeStep(fmt.t2) # fmt.t2

\* The text is of the title family: text, the two title lines, text.
HasTitle(parts) == Len(parts) = 3 /\ parts[2].k = "title"

ExpectedTitle(parts) ==
    HeadingPrefix \o parts[2].b \o <<" ", "-", "-", " ">> \o parts[2].a

FirstLine(s) == SubSeq(s, 1, LineEnd(s, 1) - 1)

\* Neither a fenced block nor an image link can start in s.
NoMarkup(s) == \A j \in 1..Len(s) : s[j] \notin {Tick, "<"}

\* Title and date phrase are what the pattern takes them to be: they hold
\* neither code block nor image link, the closing "]*" is the last on its
\* line and "Daily Programmer ===*" does not occur again after the banner.
Unambiguous(parts) ==
    /\ NoMarkup(parts[2].a)
    /\ NoMarkup(parts[2].b)
    /\ ~Contains(FirstLine(parts[3].a), <<"]", "*">>)
    /\ ~Contains(parts[2].b \o parts[3].a,
                 SubSeq(TitleClose, 4, Len(TitleClose)))

HasLinks(parts) ==
    /\ parts # <<>>
    /\ \A i \in 1..Len(parts) :
          parts[i].k \in {"plain", "image", "link", "imageblock"}

Illustration(a) ==
    <<"!", "[", "I", "l", "l", "u", "s", "t", "r", "a", "t", "i", "o", "n",
      "]", "(">> \o ImagePrefix \o a \o <<")", NL>>

\* What the claim expects of each part: an image link becomes the
\* illustration and a newline (also inside a code block, which the second
\* modification has set on its own lines), every other part stays.
ExpectedImages(parts) ==
    Concat([i \in 1..Len(parts) |->
              CASE parts[i].k = "image" -> Illustration(parts[i].a)
                [] parts[i].k = "imageblock" ->
                      Fence \o <<NL>> \o Illustration(parts[i].a) \o <<NL>>
                      \o Fence
                [] OTHER -> Render(parts[i])])

ImagesOf(parts) == {i \in 1..Len(parts) : parts[i].k = "image"}

LinksOf(parts) == {i \in 1..Len(parts) : parts[i].k = "link"}

\* C11: in the output of format_messages every bracketed URL under the image
\* host prefix has become "![Illustration](url)" and a newline, at every
\* occurrence, and every bracketed URL under another prefix is unchanged.
C11_ImageLinks ==
    (fmt.stage = "returned" /\ HasLinks(fmt.parts)) =>
        /\ fmt.t3 = HeadingPrefix \o ExpectedImages(fmt.parts)
        /\ \A i \in LinksOf(fmt.parts) : Contains(fmt.t3, Render(fmt.parts[i]))
        /\ \A i \in ImagesOf(fmt.parts) :
              ~Contains(fmt.t3, Render(fmt.parts[i]))

\* A text with two different image links came out rewritten, and one with
\* an image link after a link under another prefix.
C11_Witness ==
    /\ fmt.stage = "returned"
    /\ HasLinks(fmt.parts)
    /\ Len(fmt.parts) = 3
    /\ fmt.parts[2].k = "image" /\ fmt.parts[3].k = "image"
    /\ fmt.parts[2].a # fmt.parts[3].a
    /\ Contains(fmt.t3, Illustration(fmt.parts[2].a))
    /\ Contains(fmt.t3, Illustration(fmt.parts[3].a))

\* The section the i-th line of a file lies in ("" before any header).
SectionOf(ls, i) ==
    LET hs == {j \in 1..(i - 1) : ls[j].t = "section"}
    IN  IF hs = {} THEN "" ELSE ls[MaxOf(hs)].name

\* The lines that set repo in the section GitRepoInfo.
RepoLines(f) ==
    {i \in 1..Len(f.lines) :
        /\ f.lines[i].t = "option"
        /\ f.lines[i].key = "repo"
        /\ SectionOf(f.lines, i) = "GitRepoInfo"}

\* The parser does not get through the file: it does not decode, a line is
\* neither header nor option, a line precedes every header, a section or an
\* option of a section is there twice.
Unparsable(f) ==
    \/ f.kind = "undecodable"
    \/ /\ f.kind = "text"
       /\ \/ \E i \in 1..Len(f.lines) : f.lines[i].t = "garbage"
          \/ f.lines # <<>> /\ f.lines[1].t # "section"
          \/ \E i, j \in 1..Len(f.lines) :
                /\ i < j
                /\ f.lines[i].t = "section"
                /\ f.lines[i] = f.lines[j]
          \/ \E i, j \in 1..Len(f.lines) :
                /\ i < j
                /\ f.lines[i].t = "option" /\ f.lines[j].t = "option"
                /\ f.lines[i].key = f.lines[j].key
                /\ SectionOf(f.lines, i) = SectionOf(f.lines, j)

MissingSection(f) ==
    f.kind = "text" /\ \A i \in 1..Len(f.lines) : f.lines[i] # Section("GitRepoInfo")

MissingKey(f) == f.kind = "text" /\ RepoLines(f) = {}

EmptyValue(f) == \E i \in RepoLines(f) : f.lines[i].val = <<>>

\* The cases in which the default URL is to be used.
FallbackCase(f) ==
    \/ f.kind = "missing"
    \/ Unparsable(f)
    \/ MissingSection(f)
    \/ MissingKey(f)
    \/ EmptyValue(f)

\* C12: for a config.ini that is missing, lacks the section GitRepoInfo or
\* the key repo, has an empty repo or does not parse, read_config returns
\* normally and the URL stays the default; the URL is the configured one only
\* when the file parses and repo is there and not empty.
C12_ConfigNeverFatal ==
    single.reads >= 1 =>
        /\ FallbackCase(single.file) =>
              /\ single.cfgExc = "none"
              /\ ~single.configured
        /\ single.configured =>
              /\ ~Unparsable(single.file)
              /\ RepoLines(single.file) # {}
              /\ ~EmptyValue(single.file)

\* getInstance has constructed the helper on a config.ini whose section
\* GitRepoInfo is there twice, and the parser's exception has left it.
C12_Witness ==
    /\ single.last.op = "getInstance"
    /\ single.reads = 1
    /\ single.file.kind = "text"
    /\ Len(single.file.lines) = 3
    /\ single.file.lines[1] = Section("GitRepoInfo")
    /\ single.file.lines[3] = Section("GitRepoInfo")
    /\ single.cfgExc = "DuplicateSectionError"
    /\ single.last.exc = "DuplicateSectionError"

\* C13: from a directory that is no working tree, the history of gh-pages,
\* in the working tree and on origin, never holds more than one commit; after
\* each successful publish it is exactly one commit, with the message of the
\* first one and the file as its tree: State A adds none, it replaces the tip.
C13_SingleSnapshot ==
    /\ Len(repo.heads["gh-pages"]) <= 1
    /\ Len(remote) <= 1
    /\ \A i \in 1..Len(repo.heads["gh-pages"]) :
          repo.heads["gh-pages"][i].message = InitialMessage
    /\ pc = "p_done" =>
          /\ repo.heads["gh-pages"] =
                <<[message |-> InitialMessage, tree |-> fileContent]>>
          /\ remote = repo.heads["gh-pages"]

\* The third successful publish, the last two by State A, has completed.
C13_Witness ==
    /\ pc = "p_done"
    /\ taken = <<"B", "A", "A">>
    /\ ~gitFailed
    /\ Len(repo.heads["gh-pages"]) = 1
    /\ Len(remote) = 1

\* The Challenge Documents of the messages submitted.
Documents == {Doc(m) : m \in {x \in Messages : IsChallenge(x)}}

\* C14: no two Challenge Documents stand in index.md one right after the
\* other: the separator is between any two consecutive ones.
C14_SeparatedDocuments ==
    \A d1, d2 \in Documents : ~Contains(fileContent, d1 \o d2)

\* Two parse_message calls in a row have appended their documents and the
\* second write has completed.
C14_Witness ==
    /\ pc = "publish"
    /\ call.kind = "message"
    /\ mode = "a"
    /\ nWrites = 2
    /\ fileBefore = Doc(MsgA)
    /\ fileContent = Doc(MsgA) \o Doc(MsgB)

StateAPcs == {"A_add", "A_amend", "A_push"}

\* The working tree as a completed State B leaves it: a tip on gh-pages,
\* origin registered, gh-pages checked out, its upstream set (which only the
\* last operation of State B does).
FullySetUp(r) ==
    /\ HasTip(r, "gh-pages")
    /\ r.origin # "none"
    /\ r.branch = "gh-pages"
    /\ r.upstream

\* C15 as stated: the operations of State A are executed only on a fully
\* set-up working tree.
C15_Original == pc \in StateAPcs => FullySetUp(repo)

\* C15, amended: State A is entered exactly when the directory is a working
\* tree at the entry of the publish, whatever an earlier State B has left
\* undone; it runs to completion only on a fully set-up working tree, and on
\* any other its amend (no tip) or its push (no upstream) fails.
C15_StateAOnWorkingTree ==
    /\ pc \in StateAPcs => entryRepo /\ repo.exists
    /\ pc \in PublishPcs \ (StateAPcs \cup {"p_done"}) => ~entryRepo
    /\ (pc = "p_done" /\ entryRepo) => FullySetUp(repo)
    /\ (pc = "A_push" /\ ~FullySetUp(repo)) => HasTip(repo, repo.branch)
    /\ (pc = "idle" /\ entryRepo /\ error = "none" /\ gitLog # <<>>) =>
          FullySetUp(repo)

\* State B failed at the fetch; the next publish took State A, amended the
\* tip and failed at its push.
C15_Witness ==
    /\ pc = "idle"
    /\ taken = <<"B", "A">>
    /\ entryRepo
    /\ error = "GitCommandError"
    /\ gitLog = StateA
    /\ HasTip(repo, "gh-pages")
    /\ repo.branch = "gh-pages"
    /\ ~repo.upstream

\* C16: whatever getInstance and constructor calls have been made, one
\* object at most has ever been registered (the first one made); every
\* getInstance call has returned it; a constructor call made while it was
\* registered has raised and left it registered; read_config has run once,
\* when it was made.
C16_Singleton ==
    /\ single.instance = (IF single.objects = 0 THEN 0 ELSE 1)
    /\ single.reads = (IF single.instance = 0 THEN 0 ELSE 1)
    /\ single.last.op = "getInstance" =>
          /\ single.last.exc = "none"
          /\ single.last.value = single.instance
          /\ single.instance # 0
    /\ (single.last.op = "constructor" /\ single.objects > 1) =>
          single.last.exc = "Exception"

\* The getInstance call that made the instance raised, on a config.ini that
\* sets repo twice, and a later getInstance call returned the instance.
C16_Witness ==
    /\ single.calls = 2
    /\ single.objects = 1
    /\ single.cfgExc = "DuplicateOptionError"
    /\ single.last = [op |-> "getInstance", exc |-> "none", value |-> 1]

=============================================================================
